---- MODULE Spec2Model ----
(***************************************************************************)
(* Model of ringbuffer.go: a fixed-capacity circular byte buffer guarded   *)
(* by one sync.Mutex, called by several goroutines.                        *)
(*                                                                         *)
(* Storage r.buf is a function 0..size-1 -> Byte (Go's zero-based slice);  *)
(* byte slices passed in and out (p, the result of Bytes) are sequences.   *)
(* A call is modelled in the steps the scheduler can interleave:           *)
(*   Call    the goroutine enters a method; Read/Write with len(p) == 0    *)
(*           and Capacity return without the lock, the others wait at      *)
(*           r.mu.Lock();                                                  *)
(*   Lock    r.mu.Lock() succeeds;                                         *)
(*   Do<Op>  the method body, executed while holding the lock;             *)
(*   Unlock  the deferred r.mu.Unlock() and the return to the caller;      *)
(*   Return  the return of a call that took no lock.                       *)
(***************************************************************************)
EXTENDS Integers, Sequences, FiniteSets, TLC

\* ---- bounds of the model ------------------------------------------------
MaxCap == 3
MaxLog == 5

Capacities == 1..MaxCap
\* The code copies bytes and never inspects them: two values tell every
\* position of a payload from its neighbours and from the zeroed storage.
Byte == {0, 1}
MaxLen == MaxCap + 1
Procs == {"g1", "g2"}
NoOne == "none"

Min(a, b) == IF a < b THEN a ELSE b

\* all byte slices of length lo..hi
SeqsOfLen(n) == [1..n -> Byte]
Payloads(lo, hi) == UNION {SeqsOfLen(n) : n \in lo..hi}

\* make([]byte, n): a zeroed slice
Zeros(n) == [i \in 1..n |-> 0]

\* ---- Go slice primitives -------------------------------------------------
\* b[lo:hi] of the storage, as a sequence
Slice(b, lo, hi) == [i \in 1..(hi - lo) |-> b[lo + i - 1]]

\* copy(b[at:], s) into the storage: min(len(b)-at, len(s)) elements
CopyBuf(b, at, s) ==
    [i \in DOMAIN b |-> IF i >= at /\ i < at + Len(s) THEN s[i - at + 1] ELSE b[i]]

\* copy(dst[at:], s) into a slice held by the caller (at is zero-based)
CopySeq(dst, at, s) ==
    [i \in 1..Len(dst) |-> IF i > at /\ i <= at + Len(s) THEN s[i - at] ELSE dst[i]]

\* the run-time check of b[lo:hi] on a slice of capacity c; a failed check,
\* like an index out of range or an integer division by zero, is a panic
SliceOK(lo, hi, c) == 0 <= lo /\ lo <= hi /\ hi <= c

IndexOK(i, c) == 0 <= i /\ i < c

\* ---- state ---------------------------------------------------------------
VARIABLES
    buf, size, r, w, isFull,   \* the RingBuffer fields
    mu,                        \* holder of r.mu, or NoOne
    pc, op,                    \* per goroutine: position and method called
    arg, res,                  \* per goroutine: argument and results of the body
    pre,                       \* fields as they were when the running body started
    q,                         \* the bounded FIFO queue the buffer implements
    logging, wlog, rlog        \* accepted / returned bytes in lock order

rb == <<buf, size, r, w, isFull>>
vars == <<buf, size, r, w, isFull, mu, pc, op, arg, res, pre, q, logging, wlog, rlog>>

Ops == {"Read", "ReadByte", "Write", "WriteByte", "Length", "Capacity", "Free",
        "Bytes", "IsFull", "IsEmpty", "Reset"}
LockedOps == Ops \ {"Capacity"}
LogOps == {"Read", "ReadByte", "Write", "WriteByte"}

NoArg == <<>>
NoRes == [n |-> 0, err |-> "nil", p |-> <<>>, b |-> FALSE]
NoPre == [buf |-> <<>>, size |-> 0, r |-> 0, w |-> 0, isFull |-> FALSE, q |-> <<>>,
          set |-> FALSE]

Snapshot == [buf |-> buf, size |-> size, r |-> r, w |-> w, isFull |-> isFull, q |-> q,
             set |-> TRUE]

\* ---- the queries, as the code computes them ------------------------------
LengthOf(rr, ww, full, sz) ==
    IF ww = rr THEN (IF full THEN sz ELSE 0)
    ELSE IF ww > rr THEN ww - rr
    ELSE sz - rr + ww

\* Free with the sign of r slipped in the unwrapped case
FreeOfSlip(rr, ww, full, sz) ==
    IF ww = rr THEN (IF full THEN 0 ELSE sz)
    ELSE IF ww < rr THEN rr - ww
    ELSE sz - ww - rr

FreeOf(rr, ww, full, sz) ==
    IF ww = rr THEN (IF full THEN 0 ELSE sz)
    ELSE IF ww < rr THEN rr - ww
    ELSE sz - ww + rr

\* Bytes without the second copy of wrapped data
BytesOfOnePiece(b, rr, ww, full, sz) ==
    IF ww = rr THEN
        IF full THEN CopySeq(Zeros(sz), 0, Slice(b, rr, sz)) ELSE <<>>
    ELSE IF ww > rr THEN
        CopySeq(Zeros(ww - rr), 0, Slice(b, rr, ww))
    ELSE
        CopySeq(Zeros(sz - rr + ww), 0, Slice(b, rr, sz))

BytesOf(b, rr, ww, full, sz) ==
    IF ww = rr THEN
        IF full THEN
            LET b0 == Zeros(sz)
                b1 == CopySeq(b0, 0, Slice(b, rr, sz))
            IN  CopySeq(b1, sz - rr, Slice(b, 0, ww))
        ELSE <<>>
    ELSE IF ww > rr THEN
        CopySeq(Zeros(ww - rr), 0, Slice(b, rr, ww))
    ELSE
        LET n == sz - rr + ww
            b0 == Zeros(n)
        IN  IF rr + n < sz THEN CopySeq(b0, 0, Slice(b, rr, rr + n))
            ELSE LET c1 == sz - rr
                     c2 == n - c1
                 IN  CopySeq(CopySeq(b0, 0, Slice(b, rr, sz)), c1, Slice(b, 0, c2))

IsFullOf(full) == full

\* an emptiness test that looks at the cursors alone
IsEmptyOfCursors(rr, ww, full) == ww = rr

IsEmptyOf(rr, ww, full) == ~full /\ ww = rr

Length == LengthOf(r, w, isFull, size)
Free == FreeOf(r, w, isFull, size)
Capacity == size
Bytes == BytesOf(buf, r, w, isFull, size)
IsFull == IsFullOf(isFull)
IsEmpty == IsEmptyOf(r, w, isFull)

\* ---- Read (ringbuffer.go 39-80) ------------------------------------------
\* the number of unread bytes Read sees once the buffer is known non-empty
ReadAvail(rr, ww, sz) == IF ww > rr THEN ww - rr ELSE sz - rr + ww

\* Read's count without the cap at len(p)
ReadCountNoCap(rr, ww, sz, m) == ReadAvail(rr, ww, sz)

\* n: the unread bytes, capped at len(p)
ReadCount(rr, ww, sz, m) ==
    LET n == ReadAvail(rr, ww, sz) IN IF n > m THEN m ELSE n

\* Read's copies with the second piece put at the start of p
ReadCopyOverlap(b, rr, ww, sz, n, dst) ==
    IF ww > rr THEN CopySeq(dst, 0, Slice(b, rr, rr + n))
    ELSE IF rr + n <= sz THEN CopySeq(dst, 0, Slice(b, rr, rr + n))
    ELSE LET c1 == sz - rr
             c2 == n - c1
         IN  CopySeq(CopySeq(dst, 0, Slice(b, rr, sz)), 0, Slice(b, 0, c2))

\* the copies into p: one piece, or two when the data wraps
ReadCopy(b, rr, ww, sz, n, dst) ==
    IF ww > rr THEN CopySeq(dst, 0, Slice(b, rr, rr + n))
    ELSE IF rr + n <= sz THEN CopySeq(dst, 0, Slice(b, rr, rr + n))
    ELSE LET c1 == sz - rr
             c2 == n - c1
         IN  CopySeq(CopySeq(dst, 0, Slice(b, rr, sz)), c1, Slice(b, 0, c2))

\* Read that never clears isFull
ReadCommitKeepFull(b, rr, ww, full, sz, dst) ==
    LET n == ReadCount(rr, ww, sz, Len(dst))
    IN  [r |-> (rr + n) % sz,
         isFull |-> full,
         n |-> n, err |-> "nil",
         p |-> ReadCopy(b, rr, ww, sz, n, dst)]

ReadCommit(b, rr, ww, full, sz, dst) ==
    LET n == ReadCount(rr, ww, sz, Len(dst))
    IN  [r |-> (rr + n) % sz,
         isFull |-> IF ww > rr THEN full ELSE FALSE,
         n |-> n, err |-> "nil",
         p |-> ReadCopy(b, rr, ww, sz, n, dst)]

\* Read panics when a slice expression is out of range (56, 67-73) or when
\* r.size is 0 in (r.r + n) % r.size (57, 75)
ReadPanics(rr, ww, sz, m) ==
    LET n == ReadCount(rr, ww, sz, m) IN
    \/ sz = 0
    \/ IF ww > rr \/ rr + n <= sz
       THEN ~SliceOK(rr, rr + n, sz)
       ELSE ~SliceOK(rr, sz, sz) \/ ~SliceOK(sz - rr, m, m) \/ ~SliceOK(0, n - (sz - rr), sz)

\* the body of Read for len(p) > 0
ReadResult(b, rr, ww, full, sz, dst) ==
    IF ww = rr /\ ~full
    THEN [r |-> rr, isFull |-> full, n |-> 0, err |-> "ErrEmpty", p |-> dst]
    ELSE IF ReadPanics(rr, ww, sz, Len(dst))
    THEN [r |-> rr, isFull |-> full, n |-> 0, err |-> "panic", p |-> dst]
    ELSE ReadCommit(b, rr, ww, full, sz, dst)

\* ---- ReadByte (ringbuffer.go 83-98) --------------------------------------
\* a ReadByte that leaves the flag as it was
ReadByteCommitKeepFull(b, rr, ww, full, sz) ==
    [r |-> IF rr + 1 = sz THEN 0 ELSE rr + 1,
     isFull |-> full, n |-> b[rr], err |-> "nil"]

ReadByteCommit(b, rr, ww, full, sz) ==
    [r |-> IF rr + 1 = sz THEN 0 ELSE rr + 1,
     isFull |-> FALSE, n |-> b[rr], err |-> "nil"]

\* ReadByte without the test for an empty buffer
ReadByteResultNoCheck(b, rr, ww, full, sz) == ReadByteCommit(b, rr, ww, full, sz)

\* n carries the returned byte; r.buf[r.r] panics when r.r is out of range (90)
ReadByteResult(b, rr, ww, full, sz) ==
    IF ww = rr /\ ~full
    THEN [r |-> rr, isFull |-> full, n |-> 0, err |-> "ErrEmpty"]
    ELSE IF ~IndexOK(rr, sz)
    THEN [r |-> rr, isFull |-> full, n |-> 0, err |-> "panic"]
    ELSE ReadByteCommit(b, rr, ww, full, sz)

\* ---- Write (ringbuffer.go 102-151) ---------------------------------------
\* Write's free space counted to the end of storage only
WriteAvailToEnd(rr, ww, sz) == IF ww >= rr THEN sz - ww ELSE rr - ww

WriteAvail(rr, ww, sz) == IF ww >= rr THEN sz - ww + rr ELSE rr - ww

\* Write that never cuts the payload to the free space
WriteTruncNone(p, avail) == p

\* p = p[:avail] when len(p) > avail
WriteTrunc(p, avail) == IF Len(p) > avail THEN SubSeq(p, 1, avail) ELSE p

\* the copies into storage and the advance of w, before the wrap of w
WriteCopy(b, rr, ww, sz, p) ==
    LET n == Len(p) IN
    IF ww >= rr THEN
        LET c1 == sz - ww IN
        IF c1 >= n THEN [buf |-> CopyBuf(b, ww, p), w |-> ww + n]
        ELSE [buf |-> CopyBuf(CopyBuf(b, ww, SubSeq(p, 1, c1)), 0, SubSeq(p, c1 + 1, n)),
              w |-> n - c1]
    ELSE [buf |-> CopyBuf(b, ww, p), w |-> ww + n]

\* if r.w == r.size { r.w = 0 }
\* a write cursor that is never wrapped
WrapWNever(ww, sz) == ww

WrapW(ww, sz) == IF ww = sz THEN 0 ELSE ww

\* if r.w == r.r { r.isFull = true }
\* a flag that is also set whenever the write cursor wraps to 0
FullAfterWrap(rr, ww, full) == IF ww = rr \/ ww = 0 THEN TRUE ELSE full

FullAfter(rr, ww, full) == IF ww = rr THEN TRUE ELSE full

WriteCommit(b, rr, ww, full, sz, p) ==
    LET avail == WriteAvail(rr, ww, sz)
        pp == WriteTrunc(p, avail)
        c == WriteCopy(b, rr, ww, sz, pp)
        w2 == WrapW(c.w, sz)
    IN  [buf |-> c.buf, w |-> w2, isFull |-> FullAfter(rr, w2, full),
         n |-> Len(pp), err |-> IF Len(p) > avail THEN "ErrFull" ELSE "nil"]

\* Write without the test of isFull
WriteResultNoCheck(b, rr, ww, full, sz, p) == WriteCommit(b, rr, ww, full, sz, p)

\* Write panics when a slice expression is out of range: p[:avail] (123),
\* r.buf[r.w:] (130, 133, 139), p[:c1] and p[c1:] (133, 135)
WritePanics(rr, ww, sz, m) ==
    LET avail == WriteAvail(rr, ww, sz)
        n == IF m > avail THEN avail ELSE m
    IN  \/ m > avail /\ ~SliceOK(0, avail, m)
        \/ ~SliceOK(ww, sz, sz)
        \/ ww >= rr /\ sz - ww < n /\ ~SliceOK(sz - ww, n, n)

\* the body of Write for len(p) > 0
WriteResult(b, rr, ww, full, sz, p) ==
    IF full
    THEN [buf |-> b, w |-> ww, isFull |-> full, n |-> 0, err |-> "ErrFull"]
    ELSE IF WritePanics(rr, ww, sz, Len(p))
    THEN [buf |-> b, w |-> ww, isFull |-> full, n |-> 0, err |-> "panic"]
    ELSE WriteCommit(b, rr, ww, full, sz, p)

\* ---- WriteByte (ringbuffer.go 154-172) -----------------------------------
\* a WriteByte that never sets the flag
WriteByteCommitNoFlag(b, rr, ww, full, sz, c) ==
    [buf |-> [b EXCEPT ![ww] = c], w |-> WrapW(ww + 1, sz),
     isFull |-> full, err |-> "nil"]

WriteByteCommit(b, rr, ww, full, sz, c) ==
    LET w2 == WrapW(ww + 1, sz)
    IN  [buf |-> [b EXCEPT ![ww] = c], w |-> w2,
         isFull |-> FullAfter(rr, w2, full), err |-> "nil"]

\* r.buf[r.w] = c panics when r.w is out of range (161)
WriteByteResult(b, rr, ww, full, sz, c) ==
    IF ww = rr /\ full
    THEN [buf |-> b, w |-> ww, isFull |-> full, err |-> "ErrFull"]
    ELSE IF ~IndexOK(ww, sz)
    THEN [buf |-> b, w |-> ww, isFull |-> full, err |-> "panic"]
    ELSE WriteByteCommit(b, rr, ww, full, sz, c)

\* ---- the bounded FIFO queue the buffer is compared with ------------------
QAppend(qq, sz, p) == qq \o SubSeq(p, 1, Min(Len(p), sz - Len(qq)))
QDrop(qq, n) == SubSeq(qq, n + 1, Len(qq))
QTake(qq, n) == SubSeq(qq, 1, n)

\* ---- New (ringbuffer.go 30-35) -------------------------------------------
New(sz) ==
    /\ size = sz
    /\ buf = [i \in 0..(sz - 1) |-> 0]
    /\ r = 0
    /\ w = 0
    /\ isFull = FALSE
    /\ mu = NoOne

Idle ==
    /\ pc = [g \in Procs |-> "idle"]
    /\ op = [g \in Procs |-> "none"]
    /\ arg = [g \in Procs |-> NoArg]
    /\ res = [g \in Procs |-> NoRes]
    /\ pre = NoPre
    /\ q = <<>>
    /\ wlog = <<>>
    /\ rlog = <<>>

Init == (\E sz \in Capacities : New(sz)) /\ Idle /\ logging = FALSE

InitLog == (\E sz \in Capacities : New(sz)) /\ Idle /\ logging = TRUE

\* a capacity of any kind, New(0) included
InitAny == (\E sz \in 0..MaxCap : New(sz)) /\ Idle /\ logging = FALSE

\* a panic has ended the program: an unrecovered panic runs the deferred
\* unlock of the panicking call and then stops every goroutine
Crashed == \E g \in Procs : pc[g] = "panic"

\* bytes the log can still take
LogRoom == MaxLog - Len(wlog)

\* ---- the steps of a call -------------------------------------------------
\* A goroutine calls a method. Read and Write return (0, nil) for an empty p
\* before touching the lock (40-42, 103-105); Capacity returns r.size without
\* the lock (194-196); every other call arrives at r.mu.Lock(). Which method
\* waits there has no effect on the buffer until the lock is granted, so op
\* records it when the lock is granted.
\* a zero-length request that looks at the buffer before at the length
ZeroLenChecked(o) ==
    [n |-> 0,
     err |-> IF o = "Read" /\ IsEmpty THEN "ErrEmpty"
             ELSE IF o = "Write" /\ IsFull THEN "ErrFull" ELSE "nil"]

\* if len(p) == 0 { return 0, nil }, the first statement of Read and of Write
ZeroLen(o) == [n |-> 0, err |-> "nil"]

Call(g) ==
    /\ pc[g] = "idle"
    /\ ~Crashed
    /\ \/ /\ \E o \in {"Read", "Write"} :
               /\ op' = [op EXCEPT ![g] = o]
               /\ res' = [res EXCEPT ![g] =
                            [NoRes EXCEPT !.n = ZeroLen(o).n, !.err = ZeroLen(o).err]]
          /\ pc' = [pc EXCEPT ![g] = "done"]
       \/ /\ ~logging
          /\ op' = [op EXCEPT ![g] = "Capacity"]
          /\ pc' = [pc EXCEPT ![g] = "done"]
          /\ res' = [res EXCEPT ![g] = [NoRes EXCEPT !.n = size]]
       \/ /\ pc' = [pc EXCEPT ![g] = "lock"]
          /\ UNCHANGED <<op, res>>
    /\ UNCHANGED <<rb, mu, arg, pre, q, logging, wlog, rlog>>

\* r.mu.Lock() of a method that takes the lock. While the bytes are logged,
\* only readers and writers run, and a writer is admitted only while the log
\* has room, which keeps the log within MaxLog bytes.
\* a reader/writer lock: a reader is admitted while another reader holds it
LockShared(g) ==
    /\ pc[g] = "lock"
    /\ ~Crashed
    /\ \E o \in (IF logging THEN LogOps ELSE LockedOps) :
         /\ (logging /\ o \in {"Write", "WriteByte"}) => LogRoom > 0
         /\ \/ mu = NoOne
            \/ /\ o \in {"Read", "ReadByte"}
               /\ \E h \in Procs : mu = h /\ op[h] \in {"Read", "ReadByte"}
         /\ op' = [op EXCEPT ![g] = o]
    /\ mu' = g
    /\ pc' = [pc EXCEPT ![g] = "cs"]
    /\ UNCHANGED <<rb, arg, res, pre, q, logging, wlog, rlog>>

Lock(g) ==
    /\ pc[g] = "lock"
    /\ ~Crashed
    /\ mu = NoOne
    /\ \E o \in (IF logging THEN LogOps ELSE LockedOps) :
         /\ (logging /\ o \in {"Write", "WriteByte"}) => LogRoom > 0
         /\ op' = [op EXCEPT ![g] = o]
    /\ mu' = g
    /\ pc' = [pc EXCEPT ![g] = "cs"]
    /\ UNCHANGED <<rb, arg, res, pre, q, logging, wlog, rlog>>

\* an early error return that leaves without unlocking
UnlockLeak(g) ==
    /\ pc[g] = "unlock"
    /\ mu = g
    /\ mu' = IF res[g].err \in {"ErrEmpty", "ErrFull"} THEN g ELSE NoOne
    /\ pc' = [pc EXCEPT ![g] = IF res[g].err = "panic" THEN "panic" ELSE "idle"]
    /\ op' = [op EXCEPT ![g] = "none"]
    /\ arg' = [arg EXCEPT ![g] = NoArg]
    /\ res' = [res EXCEPT ![g] = NoRes]
    /\ pre' = NoPre
    /\ UNCHANGED <<rb, q, logging, wlog, rlog>>

\* the deferred r.mu.Unlock() and the return
Unlock(g) ==
    /\ pc[g] = "unlock"
    /\ mu = g
    /\ mu' = NoOne
    /\ pc' = [pc EXCEPT ![g] = IF res[g].err = "panic" THEN "panic" ELSE "idle"]
    /\ op' = [op EXCEPT ![g] = "none"]
    /\ arg' = [arg EXCEPT ![g] = NoArg]
    /\ res' = [res EXCEPT ![g] = NoRes]
    /\ pre' = NoPre
    /\ UNCHANGED <<rb, q, logging, wlog, rlog>>

\* the return of a call that took no lock
Return(g) ==
    /\ pc[g] = "done"
    /\ ~Crashed
    /\ pc' = [pc EXCEPT ![g] = "idle"]
    /\ op' = [op EXCEPT ![g] = "none"]
    /\ arg' = [arg EXCEPT ![g] = NoArg]
    /\ res' = [res EXCEPT ![g] = NoRes]
    /\ UNCHANGED <<rb, mu, pre, q, logging, wlog, rlog>>

\* a body starts: the goroutine holds the lock and has not run the body yet
InBody(g, o) == pc[g] = "cs" /\ op[g] = o /\ mu = g

\* a body ends: results are set, the deferred unlock is pending
Done(g, a, x) ==
    /\ pc' = [pc EXCEPT ![g] = "unlock"]
    /\ arg' = [arg EXCEPT ![g] = a]
    /\ res' = [res EXCEPT ![g] = x]
    /\ pre' = Snapshot
    /\ UNCHANGED <<size, mu, op, logging>>

Log(l, s) == IF logging THEN l \o s ELSE l

\* the longest payload a Write is given
WriteLen == IF logging THEN Min(MaxLen, LogRoom) ELSE MaxLen

\* a Read that waits for data instead of returning ErrEmpty
DoReadBlocking(g) ==
    /\ InBody(g, "Read")
    /\ ~IsEmpty
    /\ \E m \in 1..MaxLen :
         LET x == ReadResult(buf, r, w, isFull, size, Zeros(m)) IN
         /\ r' = x.r
         /\ isFull' = x.isFull
         /\ Done(g, Zeros(m), [NoRes EXCEPT !.n = x.n, !.err = x.err, !.p = x.p])
         /\ q' = QDrop(q, Min(m, Len(q)))
         /\ rlog' = Log(rlog, SubSeq(x.p, 1, x.n))
    /\ UNCHANGED <<buf, w, wlog>>

DoRead(g) ==
    /\ InBody(g, "Read")
    /\ \E m \in 1..MaxLen :
         LET x == ReadResult(buf, r, w, isFull, size, Zeros(m)) IN
         /\ r' = x.r
         /\ isFull' = x.isFull
         /\ Done(g, Zeros(m), [NoRes EXCEPT !.n = x.n, !.err = x.err, !.p = x.p])
         /\ q' = QDrop(q, Min(m, Len(q)))
         /\ rlog' = Log(rlog, SubSeq(x.p, 1, x.n))
    /\ UNCHANGED <<buf, w, wlog>>

DoReadByte(g) ==
    /\ InBody(g, "ReadByte")
    /\ LET x == ReadByteResult(buf, r, w, isFull, size) IN
         /\ r' = x.r
         /\ isFull' = x.isFull
         /\ Done(g, NoArg, [NoRes EXCEPT !.n = x.n, !.err = x.err])
         /\ rlog' = Log(rlog, IF x.err = "nil" THEN <<x.n>> ELSE <<>>)
    /\ q' = QDrop(q, Min(1, Len(q)))
    /\ UNCHANGED <<buf, w, wlog>>

DoWrite(g) ==
    /\ InBody(g, "Write")
    /\ \E p \in Payloads(1, WriteLen) :
         LET x == WriteResult(buf, r, w, isFull, size, p) IN
         /\ buf' = x.buf
         /\ w' = x.w
         /\ isFull' = x.isFull
         /\ Done(g, p, [NoRes EXCEPT !.n = x.n, !.err = x.err])
         /\ q' = QAppend(q, size, p)
         /\ wlog' = Log(wlog, SubSeq(p, 1, x.n))
    /\ UNCHANGED <<r, rlog>>

DoWriteByte(g) ==
    /\ InBody(g, "WriteByte")
    /\ \E c \in Byte :
         LET x == WriteByteResult(buf, r, w, isFull, size, c) IN
         /\ buf' = x.buf
         /\ w' = x.w
         /\ isFull' = x.isFull
         /\ Done(g, <<c>>, [NoRes EXCEPT !.err = x.err])
         /\ q' = QAppend(q, size, <<c>>)
         /\ wlog' = Log(wlog, IF x.err = "nil" THEN <<c>> ELSE <<>>)
    /\ UNCHANGED <<r, rlog>>

DoLength(g) ==
    /\ InBody(g, "Length")
    /\ Done(g, NoArg, [NoRes EXCEPT !.n = Length])
    /\ UNCHANGED <<buf, r, w, isFull, q, wlog, rlog>>

DoFree(g) ==
    /\ InBody(g, "Free")
    /\ Done(g, NoArg, [NoRes EXCEPT !.n = Free])
    /\ UNCHANGED <<buf, r, w, isFull, q, wlog, rlog>>

\* Bytes that consumes what it returns
DoBytesDrain(g) ==
    /\ InBody(g, "Bytes")
    /\ Done(g, NoArg, [NoRes EXCEPT !.p = Bytes])
    /\ r' = w
    /\ isFull' = FALSE
    /\ UNCHANGED <<buf, w, q, wlog, rlog>>

DoBytes(g) ==
    /\ InBody(g, "Bytes")
    /\ Done(g, NoArg, [NoRes EXCEPT !.p = Bytes])
    /\ UNCHANGED <<buf, r, w, isFull, q, wlog, rlog>>

DoIsFull(g) ==
    /\ InBody(g, "IsFull")
    /\ Done(g, NoArg, [NoRes EXCEPT !.b = IsFull])
    /\ UNCHANGED <<buf, r, w, isFull, q, wlog, rlog>>

DoIsEmpty(g) ==
    /\ InBody(g, "IsEmpty")
    /\ Done(g, NoArg, [NoRes EXCEPT !.b = IsEmpty])
    /\ UNCHANGED <<buf, r, w, isFull, q, wlog, rlog>>

\* Reset that leaves isFull as it was
DoResetKeepFull(g) ==
    /\ InBody(g, "Reset")
    /\ r' = 0
    /\ w' = 0
    /\ Done(g, NoArg, NoRes)
    /\ q' = <<>>
    /\ UNCHANGED <<buf, isFull, wlog, rlog>>

DoReset(g) ==
    /\ InBody(g, "Reset")
    /\ r' = 0
    /\ w' = 0
    /\ isFull' = FALSE
    /\ Done(g, NoArg, NoRes)
    /\ q' = <<>>
    /\ UNCHANGED <<buf, wlog, rlog>>

Next ==
    \E g \in Procs :
        \/ Call(g) \/ Lock(g) \/ Unlock(g) \/ Return(g)
        \/ DoRead(g) \/ DoReadByte(g) \/ DoWrite(g) \/ DoWriteByte(g)
        \/ DoLength(g) \/ DoFree(g) \/ DoBytes(g)
        \/ DoIsFull(g) \/ DoIsEmpty(g) \/ DoReset(g)

Spec == Init /\ [][Next]_vars

\* the producers and consumers alone, with the accepted and returned bytes logged
NextLog ==
    \E g \in Procs :
        \/ Call(g) \/ Lock(g) \/ Unlock(g) \/ Return(g)
        \/ DoRead(g) \/ DoReadByte(g) \/ DoWrite(g) \/ DoWriteByte(g)

SpecLog == InitLog /\ [][NextLog]_vars

\* the body of the call g is in
Body(g) ==
    \/ DoRead(g) \/ DoReadByte(g) \/ DoWrite(g) \/ DoWriteByte(g)
    \/ DoLength(g) \/ DoFree(g) \/ DoBytes(g)
    \/ DoIsFull(g) \/ DoIsEmpty(g) \/ DoReset(g)

\* the capacities the tests construct the byte-interface buffers with: New(1)
\* and New(2)
ByteCap == 2

InitFair == (\E sz \in 1..ByteCap : New(sz)) /\ Idle /\ logging = FALSE

\* A goroutine inside a call keeps running: the body, the deferred unlock and
\* the return are taken once they can be. A goroutine waiting in mu.Lock() gets
\* the mutex if it is free again and again (sync.Mutex hands the lock to a
\* starving waiter). Nothing obliges a goroutine to make a call.
SpecFair ==
    /\ InitFair /\ [][Next]_vars
    /\ \A g \in Procs :
         /\ SF_vars(Lock(g))
         /\ WF_vars(Body(g))
         /\ WF_vars(Unlock(g))
         /\ WF_vars(Return(g))

\* every method on a buffer of any capacity from 0
SpecAny == InitAny /\ [][Next]_vars

\* ---- the wrap scenario of TestRingBuffer_Write ---------------------------
\* One test goroutine, g1, on a buffer of capacity 64: a Write of "abcd"
\* repeated, a Read, a second Write of "abcd" repeated. Each call runs from
\* r.mu.Lock() to the deferred unlock in one step; pc of g1 is the position in
\* the test, and the logs record the bytes accepted and returned.
WrapCap == 64
WrapReps == 16
WrapReadMax == 8

\* "abcd"
Abcd == <<97, 98, 99, 100>>

\* strings.Repeat(s, k)
Repeat(s, k) == [i \in 1..(Len(s) * k) |-> s[((i - 1) % Len(s)) + 1]]

InitWrap == New(WrapCap) /\ Idle /\ logging = TRUE

TestWrite(from, to) ==
    /\ pc["g1"] = from
    /\ \E k \in 1..WrapReps :
         LET p == Repeat(Abcd, k)
             x == WriteResult(buf, r, w, isFull, size, p)
         IN  /\ buf' = x.buf
             /\ w' = x.w
             /\ isFull' = x.isFull
             /\ arg' = [arg EXCEPT !["g1"] = p]
             /\ res' = [res EXCEPT !["g1"] = [NoRes EXCEPT !.n = x.n, !.err = x.err]]
             /\ q' = QAppend(q, size, p)
             /\ wlog' = Log(wlog, SubSeq(p, 1, x.n))
    /\ pc' = [pc EXCEPT !["g1"] = to]
    /\ op' = [op EXCEPT !["g1"] = "Write"]
    /\ pre' = Snapshot
    /\ UNCHANGED <<size, r, mu, logging, rlog>>

WrapFirstWrite == TestWrite("idle", "written")

WrapRead ==
    /\ pc["g1"] = "written"
    /\ \E m \in 1..WrapReadMax :
         LET x == ReadResult(buf, r, w, isFull, size, Zeros(m))
         IN  /\ r' = x.r
             /\ isFull' = x.isFull
             /\ arg' = [arg EXCEPT !["g1"] = Zeros(m)]
             /\ res' = [res EXCEPT !["g1"] =
                          [NoRes EXCEPT !.n = x.n, !.err = x.err, !.p = x.p]]
             /\ q' = QDrop(q, Min(m, Len(q)))
             /\ rlog' = Log(rlog, SubSeq(x.p, 1, x.n))
    /\ pc' = [pc EXCEPT !["g1"] = "read"]
    /\ op' = [op EXCEPT !["g1"] = "Read"]
    /\ pre' = Snapshot
    /\ UNCHANGED <<buf, size, w, mu, logging, wlog>>

WrapSecondWrite == TestWrite("read", "rewritten")

NextWrap == WrapFirstWrite \/ WrapRead \/ WrapSecondWrite

SpecWrap == InitWrap /\ [][NextWrap]_vars

TypeOK ==
    /\ size \in Capacities
    /\ mu \in Procs \cup {NoOne}

\* ---- vocabulary of the properties ----------------------------------------
\* goroutine g has run the body of method o and has not yet unlocked: the
\* fields are those the body left, pre holds those it found
Ret(g, o) == pc[g] = "unlock" /\ op[g] = o

PreLength == LengthOf(pre.r, pre.w, pre.isFull, pre.size)
PreFree == FreeOf(pre.r, pre.w, pre.isFull, pre.size)
PreBytes == BytesOf(pre.buf, pre.r, pre.w, pre.isFull, pre.size)
PreIsEmpty == IsEmptyOf(pre.r, pre.w, pre.isFull)

CursorsSame == r = pre.r /\ w = pre.w /\ isFull = pre.isFull
AllSame == CursorsSame /\ buf = pre.buf /\ size = pre.size

IsPrefix(s, t) == Len(s) <= Len(t) /\ SubSeq(t, 1, Len(s)) = s

\* C1: whenever no operation holds the lock, Length() + Free() == Capacity().
C1_LengthPlusFree == (mu = NoOne) => Length + Free = Capacity

\* a wrapped, partly filled buffer of capacity >= 3 with the lock free
C1_Witness == mu = NoOne /\ w < r /\ w > 0 /\ size >= 3 /\ Length + Free = Capacity

\* C2: the buffer is a bounded FIFO byte queue q: Bytes() is q and Length() is
\* len(q) in every state, Write accepts min(len(p), C - len(q)) bytes,
\* WriteByte succeeds exactly when len(q) < C, Read returns the first
\* min(len(p), len(q)) bytes of q, ReadByte returns the head of q.
C2_Fifo ==
    /\ Bytes = q
    /\ Length = Len(q)
    /\ \A g \in Procs :
        /\ Ret(g, "Write") =>
             /\ res[g].n = Min(Len(arg[g]), size - Len(pre.q))
             /\ q = pre.q \o SubSeq(arg[g], 1, res[g].n)
        /\ Ret(g, "WriteByte") =>
             /\ (res[g].err = "nil") <=> (Len(pre.q) < size)
             /\ q = IF Len(pre.q) < size THEN pre.q \o arg[g] ELSE pre.q
        /\ Ret(g, "Read") =>
             /\ res[g].n = Min(Len(arg[g]), Len(pre.q))
             /\ SubSeq(res[g].p, 1, res[g].n) = QTake(pre.q, res[g].n)
             /\ q = QDrop(pre.q, res[g].n)
        /\ Ret(g, "ReadByte") =>
             /\ (res[g].err = "nil") <=> (pre.q # <<>>)
             /\ pre.q # <<>> => res[g].n = Head(pre.q) /\ q = Tail(pre.q)
        /\ Ret(g, "Reset") => q = <<>>
        /\ Ret(g, "Bytes") => res[g].p = q
        /\ Ret(g, "Length") => res[g].n = Len(q)

\* a Read of two or more bytes that crossed the end of storage
C2_Witness ==
    \E g \in Procs : Ret(g, "Read") /\ res[g].n >= 2 /\ pre.r + res[g].n > size
                     /\ r > 0 /\ Bytes # <<>>

\* C3: with concurrent writers and readers and no Reset, the bytes returned by
\* reads, in lock order, are a prefix of the bytes accepted by writes, in lock
\* order; what is accepted and not yet returned is what the buffer holds.
C3_ReadsPrefixOfWrites == IsPrefix(rlog, wlog) /\ wlog = rlog \o Bytes

\* a read that has returned two or more bytes, after earlier reads, while
\* another goroutine waits for the lock
C3_Witness ==
    \E g, h \in Procs :
        /\ g # h
        /\ Ret(g, "Read") /\ res[g].n >= 2 /\ Len(rlog) >= 3
        /\ pc[h] = "lock"
        /\ 1 \in {rlog[i] : i \in 1..Len(rlog)}

\* C4: round trip: a Write of N <= C bytes onto an empty buffer, at any cursor
\* position, returns (N, nil); a Read into N bytes that follows returns
\* (N, nil), fills the destination with the payload and leaves Length() == 0.
C4_RoundTrip ==
    \A g \in Procs :
        (Ret(g, "Write") /\ PreIsEmpty /\ Len(arg[g]) <= size) =>
            LET N == Len(arg[g])
                x == ReadResult(buf, r, w, isFull, size, Zeros(N))
            IN  /\ res[g].n = N
                /\ res[g].err = "nil"
                /\ x.n = N
                /\ x.err = "nil"
                /\ x.p = arg[g]
                /\ LengthOf(x.r, w, x.isFull, size) = 0

\* a payload written from an empty state whose data wraps past the end
C4_Witness ==
    \E g \in Procs :
        /\ Ret(g, "Write") /\ PreIsEmpty /\ Len(arg[g]) <= size
        /\ pre.r + Len(arg[g]) > size /\ Len(arg[g]) >= 2
        /\ 1 \in {arg[g][i] : i \in 1..Len(arg[g])}

\* C5: on a full buffer Write of a non-empty payload returns (0, ErrFull) and
\* WriteByte returns ErrFull, and neither changes r, w, isFull or storage.
C5_FullRejects ==
    \A g \in Procs :
        /\ (Ret(g, "Write") /\ PreLength = pre.size) =>
             res[g].n = 0 /\ res[g].err = "ErrFull" /\ AllSame
        /\ (Ret(g, "WriteByte") /\ PreLength = pre.size) =>
             res[g].err = "ErrFull" /\ AllSame

\* a Write and a WriteByte rejected on a full buffer whose cursors are not 0
C5_Witness ==
    \E g \in Procs :
        /\ Ret(g, "Write") \/ Ret(g, "WriteByte")
        /\ PreLength = pre.size /\ pre.r > 0 /\ res[g].err = "ErrFull"

\* C6: on an empty buffer Read into a non-empty destination returns
\* (0, ErrEmpty) and ReadByte returns ErrEmpty, and r, w, isFull are unchanged.
C6_EmptyRejects ==
    \A g \in Procs :
        /\ (Ret(g, "Read") /\ PreLength = 0) =>
             res[g].n = 0 /\ res[g].err = "ErrEmpty" /\ CursorsSame
        /\ (Ret(g, "ReadByte") /\ PreLength = 0) =>
             res[g].err = "ErrEmpty" /\ CursorsSame

\* a Read or ReadByte rejected on an empty buffer whose cursors are not 0
C6_Witness ==
    \E g \in Procs :
        /\ Ret(g, "Read") \/ Ret(g, "ReadByte")
        /\ PreLength = 0 /\ pre.r > 0 /\ res[g].err = "ErrEmpty"

\* C7: with F = Free() before the call, a Write of more than F bytes returns
\* (F, ErrFull), commits exactly the first F bytes and leaves the buffer full;
\* a Write of a non-empty payload of at most F bytes returns (len, nil).
C7_TruncatedWrite ==
    \A g \in Procs :
        Ret(g, "Write") =>
            IF Len(arg[g]) > PreFree
            THEN /\ res[g].n = PreFree
                 /\ res[g].err = "ErrFull"
                 /\ Bytes = PreBytes \o SubSeq(arg[g], 1, PreFree)
                 /\ IsFull
                 /\ Free = 0
            ELSE /\ res[g].n = Len(arg[g])
                 /\ res[g].err = "nil"
                 /\ Bytes = PreBytes \o arg[g]

\* a truncated Write that accepted at least two bytes across the wrap
C7_Witness ==
    \E g \in Procs :
        /\ Ret(g, "Write") /\ Len(arg[g]) > PreFree /\ PreFree >= 2
        /\ pre.w + PreFree > size /\ pre.w < size /\ PreLength > 0

\* C8: with L = Length() > 0 before the call, Read into m >= 1 bytes returns
\* (min(m, L), nil) and leaves Length() == L - min(m, L); when m >= L it
\* copies exactly the L unread bytes and leaves the buffer empty.
C8_PartialRead ==
    \A g \in Procs :
        (Ret(g, "Read") /\ PreLength > 0) =>
            LET L == PreLength
                m == Len(arg[g])
            IN  /\ res[g].n = Min(m, L)
                /\ res[g].err = "nil"
                /\ Length = L - Min(m, L)
                /\ m >= L => /\ SubSeq(res[g].p, 1, L) = PreBytes
                             /\ SubSeq(res[g].p, L + 1, m) = Zeros(m - L)
                             /\ Length = 0
                             /\ Free = Capacity
                             /\ IsEmpty

\* a Read that asked for more than the two or more wrapped bytes present
C8_Witness ==
    \E g \in Procs :
        /\ Ret(g, "Read") /\ Len(arg[g]) > PreLength /\ PreLength >= 2
        /\ pre.w <= pre.r /\ pre.w > 0 /\ res[g].n = PreLength

\* the step in which goroutine g runs the body of a query, or calls Capacity
QueryStep(g) ==
    \/ /\ pc[g] = "cs" /\ pc'[g] = "unlock"
       /\ op[g] \in {"Bytes", "Length", "Free", "IsFull", "IsEmpty"}
    \/ pc[g] = "idle" /\ pc'[g] = "done" /\ op'[g] = "Capacity"

\* C9: Bytes() and the queries Length(), Free(), IsFull(), IsEmpty() and
\* Capacity() change neither r, w, isFull nor storage, and return the value a
\* repeated call would return.
C9_QueriesPure ==
    [][\A g \in Procs : QueryStep(g) =>
          /\ UNCHANGED <<buf, size, r, w, isFull>>
          /\ op'[g] = "Bytes" => res'[g].p = Bytes' /\ Bytes' = Bytes
          /\ op'[g] = "Length" => res'[g].n = Length' /\ Length' = Length
          /\ op'[g] = "Free" => res'[g].n = Free' /\ Free' = Free
          /\ op'[g] = "IsFull" => res'[g].b = IsFull'
          /\ op'[g] = "IsEmpty" => res'[g].b = IsEmpty'
          /\ op'[g] = "Capacity" => res'[g].n = Capacity']_vars

\* Bytes() has returned the content of a full buffer whose data wraps
C9_Witness ==
    \E g \in Procs : Ret(g, "Bytes") /\ Len(res[g].p) = size /\ r > 0 /\ isFull
                     /\ size >= 2 /\ AllSame

\* C10: right after Reset(), from any state, IsEmpty() holds, IsFull() does
\* not, Length() == 0, Free() == Capacity(), r == w == 0, the capacity is
\* what it was, and a Write of Capacity() bytes is accepted in full.
C10_Reset ==
    \A g \in Procs :
        Ret(g, "Reset") =>
            /\ IsEmpty
            /\ ~IsFull
            /\ Length = 0
            /\ Free = Capacity
            /\ r = 0
            /\ w = 0
            /\ Capacity = pre.size
            /\ \A p \in SeqsOfLen(size) :
                 LET x == WriteResult(buf, r, w, isFull, size, p)
                 IN  x.n = size /\ x.err = "nil"

\* a Reset of a full buffer whose cursors were not 0
C10_Witness ==
    \E g \in Procs : Ret(g, "Reset") /\ pre.isFull /\ pre.r > 0 /\ Length = 0

\* the scenario of the claim: 16 bytes written, 5 read, 60 offered
WrapCase ==
    /\ pc["g1"] = "rewritten"
    /\ Len(arg["g1"]) = 60
    /\ Len(rlog) = 5
    /\ Len(wlog) - res["g1"].n = 16

\* C11 as stated: in the scenario the last Write accepts only Free() bytes,
\* across the wrap boundary, and Bytes() is "bcd" and then "abcd" 15 times.
C11_AsStated ==
    WrapCase =>
        /\ res["g1"].n = PreFree
        /\ res["g1"].err = "ErrFull"
        /\ pre.w + res["g1"].n > size
        /\ Bytes = <<98, 99, 100>> \o Repeat(Abcd, 15)

\* C11 amended: in the scenario the last Write accepts only the Free() == 53
\* bytes, across the wrap boundary, and Bytes() is the 64 bytes "bcd", then
\* "abcd" 15 times, then "a": the 11 unread bytes and the first 53 offered.
C11_WrapScenario ==
    WrapCase =>
        /\ res["g1"].n = PreFree
        /\ res["g1"].n = 53
        /\ res["g1"].err = "ErrFull"
        /\ pre.w + res["g1"].n > size
        /\ Bytes = <<98, 99, 100>> \o Repeat(Abcd, 15) \o <<97>>
        /\ Bytes = PreBytes \o SubSeq(arg["g1"], 1, 53)
        /\ IsFull

\* the scenario has run to its end
C11_Witness == WrapCase /\ rlog = <<97, 98, 99, 100, 97>> /\ Length = 64

\* C12: no operation ever panics, for any capacity including New(0): every
\* call returns normally with a value or with ErrEmpty/ErrFull.
C12_NoPanic == \A g \in Procs : res[g].err # "panic" /\ pc[g] # "panic"

\* C13: no operation waits for data or space. A call holding the lock can
\* always take its body step at once, whatever the buffer holds (Read and
\* ReadByte on an empty buffer, Write and WriteByte on a full one included),
\* and under fair acquisition of the lock every invoked operation eventually
\* returns, with no obligation on the other goroutine to call again.
C13_NoBlocking ==
    /\ [](\A g \in Procs : pc[g] = "cs" => ENABLED Body(g))
    /\ \A g \in Procs : (pc[g] # "idle") ~> (pc[g] = "idle")

C13_Witness ==
    \E g, h \in Procs :
        /\ Ret(g, "Read") /\ res[g].err = "ErrEmpty"
        /\ pc[h] = "lock"

\* C14: a zero-length Read or Write is a successful no-op in every state, an
\* empty and a full buffer included: the step that serves it returns (0, nil)
\* and leaves r, w, isFull and buf unchanged.
C14_ZeroLength ==
    [][\A g \in Procs :
          (pc[g] = "idle" /\ pc'[g] = "done" /\ op'[g] \in {"Read", "Write"})
              => /\ res'[g].n = 0 /\ res'[g].err = "nil"
                 /\ UNCHANGED rb]_vars

C14_Witness ==
    \E g, h \in Procs :
        /\ pc[g] = "done" /\ op[g] = "Write" /\ res[g].err = "nil" /\ IsFull
        /\ pc[h] = "done" /\ op[h] = "Read" /\ g # h

\* C15: lock discipline. A goroutine is in the body of a locking method, or
\* between its body and its return, exactly when it holds the lock: the lock
\* is taken before the body and given back on every return, the early ErrEmpty
\* and ErrFull returns included. So the lock is free whenever no call is in
\* progress, and a goroutine waiting for the lock is never stuck: the lock is
\* free for it or its holder can take its next step.
C15_LockDiscipline ==
    /\ mu \in Procs \cup {NoOne}
    /\ \A g \in Procs : (pc[g] \in {"cs", "unlock"}) <=> (mu = g)
    /\ \A g \in Procs : pc[g] \in {"cs", "unlock"} => op[g] \in LockedOps
    /\ (\A g \in Procs : pc[g] = "idle") => mu = NoOne
    /\ \A g \in Procs :
         pc[g] = "lock" =>
            \/ ENABLED Lock(g)
            \/ \E h \in Procs : mu = h /\ (ENABLED Body(h) \/ ENABLED Unlock(h))

C15_Witness ==
    \E g, h \in Procs :
        /\ Ret(g, "Write") /\ res[g].err = "ErrFull" /\ mu = g
        /\ pc[h] = "lock"

\* a goroutine takes the body step of method o
BodyStep(g, o) == pc[g] = "cs" /\ op[g] = o /\ pc'[g] = "unlock"

\* C16: cursor bounds. In every reachable state of a buffer of capacity
\* C > 0, 0 <= r < C and 0 <= w < C, the storage has exactly C cells and
\* Capacity() is C; no step changes the capacity or the length of the storage.
C16_CursorBounds ==
    /\ [](/\ size > 0
          /\ r \in 0..(size - 1)
          /\ w \in 0..(size - 1)
          /\ DOMAIN buf = 0..(size - 1)
          /\ Capacity = size
          /\ \A g \in Procs :
               pc[g] = "done" /\ op[g] = "Capacity" => res[g].n = size)
    /\ [][size' = size /\ DOMAIN buf' = DOMAIN buf]_vars

C16_Witness ==
    \E g, h \in Procs :
        /\ Ret(g, "Write") /\ pre.w > 0 /\ pre.w + res[g].n = size /\ w = 0
        /\ pc[h] = "done" /\ op[h] = "Capacity"

\* C17: full-flag consistency. In every reachable state exactly one of full
\* (isFull and r = w), empty (not isFull and r = w) and partial (r # w and not
\* isFull) holds, so isFull is never set while r # w; a Read that took the
\* w > r branch, which does not clear the flag, leaves the flag clear.
C17_FullFlag ==
    LET full == isFull /\ r = w
        empty == ~isFull /\ r = w
        partial == r # w /\ ~isFull
    IN  /\ full \/ empty \/ partial
        /\ ~(full /\ empty) /\ ~(full /\ partial) /\ ~(empty /\ partial)
        /\ isFull => r = w
        /\ \A g \in Procs :
             Ret(g, "Read") /\ pre.w > pre.r => ~pre.isFull /\ ~isFull

C17_Witness ==
    \E g \in Procs :
        /\ Ret(g, "Read") /\ pre.w > pre.r /\ res[g].err = "nil"
        /\ r = w /\ ~isFull

\* C18: predicate agreement. In every reachable state IsFull() is true exactly
\* when Free() = 0 and exactly when Length() = Capacity(); IsEmpty() is true
\* exactly when Length() = 0 and exactly when Free() = Capacity(); they are
\* never both true; and the values the two methods return are these.
C18_Predicates ==
    /\ IsFull <=> Free = 0
    /\ IsFull <=> Length = Capacity
    /\ IsEmpty <=> Length = 0
    /\ IsEmpty <=> Free = Capacity
    /\ ~(IsFull /\ IsEmpty)
    /\ \A g \in Procs :
         /\ Ret(g, "IsFull") => (res[g].b <=> Free = 0)
         /\ Ret(g, "IsEmpty") => (res[g].b <=> Length = 0)

C18_Witness ==
    \E g \in Procs : Ret(g, "IsFull") /\ res[g].b /\ r > 0 /\ Free = 0

\* C19: the full flag is set only by writes, exactly at cursor coincidence.
\* A step that sets isFull is the body of a Write or WriteByte; after a Write
\* or WriteByte that accepts at least one byte, isFull holds if and only if
\* w = r, w being the old w advanced by the accepted bytes and wrapped at the
\* capacity; the bodies of Read, ReadByte and Reset never set it.
C19_FlagSetByWrites ==
    [][/\ (isFull' /\ ~isFull) =>
             \E g \in Procs : BodyStep(g, "Write") \/ BodyStep(g, "WriteByte")
       /\ \A g \in Procs :
            /\ BodyStep(g, "Write") /\ res'[g].n >= 1 =>
                  /\ w' = (w + res'[g].n) % size
                  /\ isFull' <=> (w' = r')
            /\ BodyStep(g, "WriteByte") /\ res'[g].err = "nil" =>
                  /\ w' = (w + 1) % size
                  /\ isFull' <=> (w' = r')
            /\ BodyStep(g, "Read") \/ BodyStep(g, "ReadByte") \/ BodyStep(g, "Reset")
                  => (isFull' => isFull)
            /\ BodyStep(g, "Reset") => ~isFull'
            /\ BodyStep(g, "Read") /\ res'[g].n >= 1 => ~isFull'
            /\ BodyStep(g, "ReadByte") /\ res'[g].err = "nil" => ~isFull']_vars

C19_Witness ==
    \E g \in Procs :
        /\ Ret(g, "WriteByte") /\ res[g].err = "nil"
        /\ ~pre.isFull /\ isFull /\ w = r /\ r > 0

\* C20: the single-byte methods are the bulk ones on one byte. WriteByte(c)
\* returns the error and leaves r, w, isFull and buf as Write of the payload
\* <<c>> does from the same state; ReadByte() returns the error and the byte
\* and leaves the state as Read into a destination of length 1 does.
C20_ByteIsBulk ==
    \A g \in Procs :
        /\ Ret(g, "WriteByte") =>
             LET x == WriteResult(pre.buf, pre.r, pre.w, pre.isFull, pre.size, arg[g])
             IN  /\ Len(arg[g]) = 1
                 /\ res[g].err = x.err
                 /\ x.n = (IF x.err = "nil" THEN 1 ELSE 0)
                 /\ buf = x.buf /\ w = x.w /\ isFull = x.isFull /\ r = pre.r
        /\ Ret(g, "ReadByte") =>
             LET x == ReadResult(pre.buf, pre.r, pre.w, pre.isFull, pre.size, Zeros(1))
             IN  /\ res[g].err = x.err
                 /\ x.n = (IF x.err = "nil" THEN 1 ELSE 0)
                 /\ x.err = "nil" => res[g].n = x.p[1]
                 /\ r = x.r /\ isFull = x.isFull /\ buf = pre.buf /\ w = pre.w

C20_Witness ==
    \E g \in Procs :
        /\ Ret(g, "ReadByte") /\ res[g].err = "nil" /\ res[g].n = 1
        /\ pre.isFull /\ size >= 2 /\ pre.r = size - 1 /\ r = 0

\* the goroutines inside a critical section: between r.mu.Lock() and the
\* deferred r.mu.Unlock()
InCritical == {g \in Procs : pc[g] \in {"cs", "unlock"}}

\* C21: mutual exclusion. At most one goroutine is inside a critical section
\* at any time, whatever the methods are: two readers exclude each other as a
\* reader and a writer or two writers do. So every step that changes r, w,
\* isFull or buf is the body step of the one goroutine inside, which holds the
\* lock before and after it, and no other goroutine is inside to observe the
\* fields between the assignments of that body.
C21_MutualExclusion ==
    /\ [](Cardinality(InCritical) <= 1)
    /\ [][rb' # rb =>
             \E g \in Procs :
                 /\ BodyStep(g, op[g])
                 /\ mu = g /\ mu' = g
                 /\ InCritical = {g} /\ InCritical' = {g}]_vars

C21_Witness ==
    \E g, h \in Procs :
        /\ g # h
        /\ pc[g] = "cs" /\ op[g] = "Read" /\ mu = g /\ ~IsEmpty
        /\ pc[h] = "lock"

====
